---- MODULE Spec2Model ----
(***************************************************************************)
(* Human-in-the-loop arbitration of app.py: the /chat and /approve         *)
(* handlers over the two in-memory maps sessions and pending_approvals.    *)
(*                                                                         *)
(* Both handlers are "async def" bodies with no await, so each runs to     *)
(* completion on the event loop: a handler is one atomic action.  Requests *)
(* that have arrived and are not yet handled sit in inflight; the event    *)
(* loop picks any of them.                                                 *)
(*                                                                         *)
(* Identifiers: str(uuid.uuid4()) values are the naturals 1, 2, 3, ... in  *)
(* order of generation (each call yields a value never seen before);       *)
(* identifiers invented by a client are numbers below 1.                   *)
(***************************************************************************)
EXTENDS Integers, Sequences, FiniteSets, Bags, TLC

(* ---------------- bounds ---------------- *)
\* requests the clients send in one behaviour
MaxRequests == 3
\* requests that may be waiting for the event loop at the same time
MaxInFlight == 2

(* ---------------- identifiers and inputs ---------------- *)
\* MessageRequest.session_id absent (None, or the empty string: both falsy)
None == 0
\* a session identifier chosen by a client, not generated by the server
ClientSessionIds == {-1}
\* an approval_id a client made up: uuid4 values cannot be guessed
BogusToken == -2
\* utterance texts
Messages == {"hi"}

(* ---------------- JSON text of a tool call's arguments ---------------- *)
\* The arguments string of a tool call, as the sequence of its JSON tokens.
LB == [k |-> "{"]
RB == [k |-> "}"]
COLON == [k |-> ":"]
COMMA == [k |-> ","]
StrTok(s) == [k |-> "str", s |-> s]
NumTok(n) == [k |-> "num", n |-> n]
NullTok == [k |-> "null"]

\* JSON values as Python objects
PyStr(s) == [t |-> "str", s |-> s]
PyInt(n) == [t |-> "int", n |-> n]
PyNone == [t |-> "none"]
PyDict(d) == [t |-> "dict", d |-> d]
EmptyDict == [x \in {} |-> PyNone]

IsScalarTok(tok) == tok.k \in {"str", "num", "null"}
ScalarOf(tok) ==
  IF tok.k = "str" THEN PyStr(tok.s)
  ELSE IF tok.k = "num" THEN PyInt(tok.n)
  ELSE PyNone

JSONDecodeError == [ok |-> FALSE]
Decoded(v) == [ok |-> TRUE, val |-> v]

\* members of an object from token i on: key ":" scalar, then "," or the
\* closing brace, which must be the last token.  A repeated key keeps the
\* last value, as Python's dict does.
RECURSIVE ParseMembers(_, _, _)
ParseMembers(toks, i, acc) ==
  IF i + 3 > Len(toks) THEN JSONDecodeError
  ELSE IF toks[i].k # "str" \/ toks[i + 1] # COLON \/ ~IsScalarTok(toks[i + 2])
    THEN JSONDecodeError
  ELSE LET acc2 == (toks[i].s :> ScalarOf(toks[i + 2])) @@ acc
       IN IF toks[i + 3] = RB
            THEN IF i + 3 = Len(toks) THEN Decoded(PyDict(acc2)) ELSE JSONDecodeError
          ELSE IF toks[i + 3] = COMMA THEN ParseMembers(toks, i + 4, acc2)
          ELSE JSONDecodeError

\* json.loads on a document that is a scalar or an object of scalars
json_loads(toks) ==
  IF Len(toks) = 0 THEN JSONDecodeError
  ELSE IF IsScalarTok(toks[1])
    THEN IF Len(toks) = 1 THEN Decoded(ScalarOf(toks[1])) ELSE JSONDecodeError
  ELSE IF toks[1] # LB THEN JSONDecodeError
  ELSE IF Len(toks) = 2 /\ toks[2] = RB THEN Decoded(PyDict(EmptyDict))
  ELSE ParseMembers(toks, 2, EmptyDict)

\* str(x) of a scalar inside an f-string
PyToStr(v) ==
  IF v.t = "str" THEN v.s
  ELSE IF v.t = "int" THEN ToString(v.n)
  ELSE "None"

(* ---------------- tools ---------------- *)
PyList(items) == [t |-> "list", items |-> items]
IsDict(v) == v.t = "dict"
\* d.get(key, default) on a dict
DictGet(v, key, default) == IF key \in DOMAIN v.d THEN v.d[key] ELSE default

\* str(e) of the exceptions that occur
ValidationErrorText == "validation error"
ProviderErrorText == "provider unavailable"
LLMErrorText == "inference failed"
JSONErrorText == "Expecting value"
AttributeErrorText == "object has no attribute 'get'"

Returned(v) == [raised |-> FALSE, result |-> v]
Raised(exc) == [raised |-> TRUE, exc |-> exc]

\* a multiply that adds
multiply_adds(tool_args) ==
  IF ~IsDict(tool_args) THEN Raised(ValidationErrorText)
  ELSE IF ~({"first_number", "second_number"} \subseteq DOMAIN tool_args.d)
    THEN Raised(ValidationErrorText)
  ELSE IF tool_args.d["first_number"].t # "int" \/ tool_args.d["second_number"].t # "int"
    THEN Raised(ValidationErrorText)
  ELSE Returned(PyInt(tool_args.d["first_number"].n + tool_args.d["second_number"].n))

\* @tool multiply: the argument schema (two int fields) is validated
\* before the body runs; the body returns the product.
multiply(tool_args) ==
  IF ~IsDict(tool_args) THEN Raised(ValidationErrorText)
  ELSE IF ~({"first_number", "second_number"} \subseteq DOMAIN tool_args.d)
    THEN Raised(ValidationErrorText)
  ELSE IF tool_args.d["first_number"].t # "int" \/ tool_args.d["second_number"].t # "int"
    THEN Raised(ValidationErrorText)
  ELSE Returned(PyInt(tool_args.d["first_number"].n * tool_args.d["second_number"].n))

\* what the web-search provider does with one query: an exception, a value
\* that is no list, or a result list
FullItem == PyDict([title |-> PyStr("T"), content |-> PyStr("C"), url |-> PyStr("U")])
BareItem == PyDict([title |-> PyStr("T")])
ProviderOutcomes ==
  { Raised(ProviderErrorText),
    Returned(PyStr("no results")),
    Returned(PyList(<<BareItem, FullItem, FullItem, FullItem>>)),
    Returned(PyList(<<PyStr("not a dict")>>)) }
\* the provider on a path that does not reach it
NoProvider == Raised(ProviderErrorText)

\* @tool search: the schema (one str field, query) is validated, then the
\* provider is called with the query; provider is its outcome.
search(tool_args, provider) ==
  IF ~IsDict(tool_args) THEN Raised(ValidationErrorText)
  ELSE IF "query" \notin DOMAIN tool_args.d THEN Raised(ValidationErrorText)
  ELSE IF tool_args.d["query"].t # "str" THEN Raised(ValidationErrorText)
  ELSE provider

\* tool_mapping[tool_name].invoke(tool_args)
tool_mapping_invoke(tool_name, tool_args, provider) ==
  IF tool_name = "search" THEN search(tool_args, provider) ELSE multiply(tool_args)

\* one executor invocation, as recorded in the log
Call(tool_name, tool_args) == [tool_name |-> tool_name, tool_args |-> tool_args]

(* ---------------- responses ---------------- *)
MessageResponse(type, message, session_id) ==
  [type |-> type, message |-> message, session_id |-> session_id]
ApprovalResponse(approval_request, session_id) ==
  [type |-> "approval_request", approval_request |-> approval_request,
   session_id |-> session_id]
HTTPException(status_code, detail) ==
  [type |-> "HTTPException", status_code |-> status_code, detail |-> detail]

Turn(type, content) == [type |-> type, content |-> content]

FallbackText == "I'm not sure how to handle that request."
CancelText == "Action cancelled by user."
NotFoundText == "Approval request not found"

(* ---------------- agent inference ---------------- *)
ToolCall(name, arguments) == [name |-> name, arguments |-> arguments]
QueryArgs == <<LB, StrTok("query"), COLON, StrTok("news"), RB>>
\* arguments of multiply(7, -6)
FactorArgs ==
  <<LB, StrTok("first_number"), COLON, NumTok(7), COMMA,
    StrTok("second_number"), COLON, NumTok(-6), RB>>
\* arguments of multiply(9, 8)
FactorArgs2 ==
  <<LB, StrTok("first_number"), COLON, NumTok(9), COMMA,
    StrTok("second_number"), COLON, NumTok(8), RB>>
\* an arguments string cut off in the middle
TruncatedArgs == <<LB, StrTok("query"), COLON>>
LLMReply(content, tool_calls) ==
  [raised |-> FALSE, content |-> content, tool_calls |-> tool_calls]
\* model_with_tools.invoke: an exception, a plain reply, or tool calls
LLMOutputs ==
  { Raised(LLMErrorText),
    LLMReply("hello", <<>>),
    LLMReply("", <<ToolCall("search", QueryArgs)>>),
    LLMReply("", <<ToolCall("search", <<LB, RB>>)>>),
    LLMReply("", <<ToolCall("search", <<NullTok>>)>>),
    LLMReply("", <<ToolCall("search", TruncatedArgs)>>),
    LLMReply("", <<ToolCall("multiply", FactorArgs)>>),
    LLMReply("", <<ToolCall("multiply", <<LB, RB>>)>>),
    LLMReply("", <<ToolCall("delete_files", QueryArgs)>>),
    LLMReply("", <<ToolCall("delete_files", TruncatedArgs)>>),
    LLMReply("", <<ToolCall("search", QueryArgs), ToolCall("multiply", FactorArgs)>>),
    LLMReply("", <<ToolCall("multiply", FactorArgs2), ToolCall("search", QueryArgs)>>) }

(* ---------------- state ---------------- *)
VARIABLES
  sessions,           \* session_id -> its "messages" list (the transcript)
  pending_approvals,  \* approval_id -> the stored approval data
  uuid_count,         \* how many uuid4 values have been drawn
  inflight,           \* bag of the requests received and not yet handled
  log                 \* the handled requests, in the order they were handled

vars == <<sessions, pending_approvals, uuid_count, inflight, log>>

\* requests the clients have sent so far
sent == Len(log) + BagCardinality(inflight)

\* d[k] = v on a dict held as a function
Put(d, k, v) == (k :> v) @@ d
\* a del that removes nothing
Del_nothing(d, k) == d

\* a del that clears the dict
Del_all(d, k) == [x \in {} |-> d[x]]

\* del d[k]
Del(d, k) == [x \in DOMAIN d \ {k} |-> d[x]]

(* ---------------- process_ai_response ---------------- *)
\* how process_ai_response ends: a response or an exception, the ledger it
\* leaves, the tool invocations it made and the uuid4 values it drew
Outcome(raised, response, pending, calls, drawn) ==
  [raised |-> raised, response |-> response, pending |-> pending,
   calls |-> calls, drawn |-> drawn]
\* an exception leaving process_ai_response, as chat reports it
Propagates(exc, pending, drawn) ==
  Outcome(TRUE, HTTPException(500, exc), pending, <<>>, drawn)

\* the chain with the approval branch lost: every known tool runs at once
Route_auto(tool_name) ==
  IF tool_name \in {"search", "multiply"} THEN "auto" ELSE "unknown"

\* the chain with every known tool sent for approval
Route_gates_all(tool_name) ==
  IF tool_name \in {"search", "multiply"} THEN "gated" ELSE "unknown"

\* the if / elif chain on tool_name
Route(tool_name) ==
  IF tool_name = "search" THEN "gated"
  ELSE IF tool_name = "multiply" THEN "auto"
  ELSE "unknown"

\* the dict stored with the session id of the request, absent, in place of
\* the resolved one
ApprovalData_unresolved(session_id, tool_name, tool_args, user_input) ==
  [session_id |-> None, tool_name |-> tool_name, tool_args |-> tool_args,
   original_query |-> user_input]

\* the dict stored without the arguments the agent gave
ApprovalData_empty_args(session_id, tool_name, tool_args, user_input) ==
  [session_id |-> session_id, tool_name |-> tool_name,
   tool_args |-> PyDict(EmptyDict), original_query |-> user_input]

\* the dict stored in pending_approvals
ApprovalData(session_id, tool_name, tool_args, user_input) ==
  [session_id |-> session_id, tool_name |-> tool_name, tool_args |-> tool_args,
   original_query |-> user_input]

ApprovalPrompt(query) == "I want to search for: '" \o PyToStr(query) \o "'. Do you approve?"

\* the last of the tool calls in place of the first
FirstCall_last(tool_calls) == tool_calls[Len(tool_calls)]

\* tool_calls[0]
FirstCall(tool_calls) == tool_calls[1]

\* llm is what model_with_tools.invoke returns or raises; approval_id is the
\* uuid4 drawn if the gated branch is taken; pending is pending_approvals.
process_ai_response(user_input, session_id, llm, approval_id, pending) ==
  IF llm.raised THEN Propagates(llm.exc, pending, 0)
  ELSE IF llm.tool_calls = <<>>
    THEN Outcome(FALSE, MessageResponse("ai_response", llm.content, session_id),
                 pending, <<>>, 0)
  ELSE
    LET tool_call == FirstCall(llm.tool_calls)
        tool_name == tool_call.name
        parsed == json_loads(tool_call.arguments)
    IN IF ~parsed.ok THEN Propagates(JSONErrorText, pending, 0)
       ELSE
         LET tool_args == parsed.val
         IN IF Route(tool_name) = "gated"
              THEN IF ~IsDict(tool_args) THEN Propagates(AttributeErrorText, pending, 1)
                   ELSE
                     LET query == DictGet(tool_args, "query", PyStr(""))
                     IN Outcome(FALSE,
                          ApprovalResponse(
                            [approval_id |-> approval_id, tool_name |-> tool_name,
                             query |-> query, message |-> ApprovalPrompt(query)],
                            session_id),
                          Put(pending, approval_id,
                              ApprovalData(session_id, tool_name, tool_args, user_input)),
                          <<>>, 1)
            ELSE IF Route(tool_name) = "auto"
              THEN LET r == tool_mapping_invoke(tool_name, tool_args, NoProvider)
                       calls == <<Call(tool_name, tool_args)>>
                   IN IF r.raised
                        THEN Outcome(FALSE,
                               MessageResponse("ai_response",
                                 "Error in calculation: " \o r.exc, session_id),
                               pending, calls, 0)
                      ELSE Outcome(FALSE,
                             MessageResponse("ai_response",
                               "The result is: " \o PyToStr(r.result), session_id),
                             pending, calls, 0)
            ELSE Outcome(FALSE,
                   MessageResponse("ai_response", FallbackText, session_id),
                   pending, <<>>, 0)

(* ---------------- requests ---------------- *)
MessageRequest(message, session_id) ==
  [op |-> "chat", message |-> message, session_id |-> session_id]
ApprovalRequest(approval_id, approved) ==
  [op |-> "approve", approval_id |-> approval_id, approved |-> approved]

\* another decision for the same token is waiting while request is handled
Contended(request) ==
  /\ request.op = "approve"
  /\ \E other \in BagToSet(inflight (-) SetToBag({request})) :
       other.op = "approve" /\ other.approval_id = request.approval_id

\* the agent's part of a log entry when the handler runs no inference
NoInference == [called |-> FALSE]

\* a log entry: the request, what agent inference gave for it, its reply, the
\* tool invocations made for it, and whether a decision for the same token
\* was in flight at the same time
Handled(request, agent, reply, calls) ==
  [request |-> request, agent |-> agent, reply |-> reply, calls |-> calls,
   contended |-> Contended(request)]

Init ==
  /\ sessions = [x \in {} |-> <<>>]
  /\ pending_approvals = [x \in {} |-> <<>>]
  /\ uuid_count = 0
  /\ inflight = EmptyBag
  /\ log = <<>>

\* a client posts to /chat: no session id, one it invented, or one it has seen
PostChat ==
  /\ sent < MaxRequests
  /\ BagCardinality(inflight) < MaxInFlight
  /\ \E message \in Messages,
        session_id \in {None} \cup ClientSessionIds \cup DOMAIN sessions :
       inflight' = inflight (+) SetToBag({MessageRequest(message, session_id)})
  /\ UNCHANGED <<sessions, pending_approvals, uuid_count, log>>

\* a client posts to /approve: a token it was handed, or one it made up
PostApprove ==
  /\ sent < MaxRequests
  /\ BagCardinality(inflight) < MaxInFlight
  /\ \E approval_id \in (1..uuid_count) \cup {BogusToken}, approved \in BOOLEAN :
       inflight' = inflight (+) SetToBag({ApprovalRequest(approval_id, approved)})
  /\ UNCHANGED <<sessions, pending_approvals, uuid_count, log>>

(* ---------------- chat ---------------- *)
\* if session_id not in sessions: sessions[session_id] = {"messages": []}
GetOrCreate(ss, session_id) ==
  IF session_id \in DOMAIN ss THEN ss ELSE Put(ss, session_id, <<>>)

\* insert(0, turn) in place of append(turn)
AppendTurn_front(ss, session_id, turn) ==
  [ss EXCEPT ![session_id] = <<turn>> \o @]

\* one messages list shared by all sessions: the turn lands in each
AppendTurn_all(ss, session_id, turn) ==
  [s \in DOMAIN ss |-> Append(ss[s], turn)]

\* sessions[session_id]["messages"].append(turn)
AppendTurn(ss, session_id, turn) ==
  [ss EXCEPT ![session_id] = Append(@, turn)]

\* the response stored as an agent turn whatever its type
StoreReply_always(ss, session_id, response) ==
  AppendTurn(ss, session_id,
             Turn("ai", IF response.type = "ai_response" THEN response.message
                        ELSE response.approval_request.message))

\* the response is stored as an agent turn unless it is an approval request
StoreReply(ss, session_id, response) ==
  IF response.type = "ai_response"
    THEN AppendTurn(ss, session_id, Turn("ai", response.message))
  ELSE ss

\* the /chat handler
chat(request, llm) ==
  LET fresh == request.session_id = None
      session_id == IF fresh THEN uuid_count + 1 ELSE request.session_id
      drawn == IF fresh THEN uuid_count + 1 ELSE uuid_count
      withUser == AppendTurn(GetOrCreate(sessions, session_id), session_id,
                             Turn("user", request.message))
      out == process_ai_response(request.message, session_id, llm, drawn + 1,
                                 pending_approvals)
  IN /\ sessions' = IF out.raised THEN withUser
                    ELSE StoreReply(withUser, session_id, out.response)
     /\ pending_approvals' = out.pending
     /\ uuid_count' = drawn + out.drawn
     /\ log' = Append(log, Handled(request, llm, out.response, out.calls))

Chat ==
  \E request \in BagToSet(inflight) :
    /\ request.op = "chat"
    /\ inflight' = inflight (-) SetToBag({request})
    /\ \E llm \in LLMOutputs : chat(request, llm)

(* ---------------- approve_action ---------------- *)
\* s[:200]
Slice200(s) == IF Len(s) > 200 THEN SubSeq(s, 1, 200) ELSE s

\* the loop over enumerate(result[:3], 1): the text it adds from item i on,
\* or an exception when an item is not a dict
RECURSIVE FormatItems(_, _)
FormatItems(items, i) ==
  IF i > Len(items) \/ i > 3 THEN [raised |-> FALSE, text |-> ""]
  ELSE IF ~IsDict(items[i]) THEN Raised(AttributeErrorText)
  ELSE LET title == DictGet(items[i], "title", PyStr("No title"))
           content == Slice200(PyToStr(DictGet(items[i], "content", PyStr("No content"))))
                        \o "..."
           url == DictGet(items[i], "url", PyStr(""))
           rest == FormatItems(items, i + 1)
       IN IF rest.raised THEN rest
          ELSE [raised |-> FALSE,
                text |-> ToString(i) \o ". " \o PyToStr(title) \o "\n" \o content
                           \o "\n" \o PyToStr(url) \o "\n\n" \o rest.text]

\* the approved branch: the stored tool is invoked and its result formatted
ExecuteApproved(approval_data, provider) ==
  LET tool_name == approval_data.tool_name
      tool_args == approval_data.tool_args
      r == tool_mapping_invoke(tool_name, tool_args, provider)
      calls == <<Call(tool_name, tool_args)>>
  IN IF r.raised THEN [raised |-> TRUE, exc |-> r.exc, calls |-> calls]
     ELSE IF tool_name = "search" /\ r.result.t = "list"
       THEN LET f == FormatItems(r.result.items, 1)
            IN IF f.raised THEN [raised |-> TRUE, exc |-> f.exc, calls |-> calls]
               ELSE [raised |-> FALSE, calls |-> calls,
                     message |-> "Search results:\n\n" \o f.text]
     ELSE [raised |-> FALSE, calls |-> calls,
           message |-> "Tool executed successfully: " \o PyToStr(r.result)]

\* a try block that does not read request.approved
Execute_ignores_decision(approved, approval_data, provider) ==
  ExecuteApproved(approval_data, provider)

\* the try block up to the message
Execute(approved, approval_data, provider) ==
  IF approved THEN ExecuteApproved(approval_data, provider)
  ELSE [raised |-> FALSE, calls |-> <<>>, message |-> CancelText]

\* a finally block that leaves the entry in place
CleanUp_keeps(pending, approval_id) == pending

\* the finally block
CleanUp(pending, approval_id) ==
  IF approval_id \in DOMAIN pending THEN Del(pending, approval_id) ELSE pending

\* an unknown token answered as a no-op instead of the 404
RejectUnknown_silent(request) ==
  /\ log' = Append(log, Handled(request, NoInference,
                              MessageResponse("ai_response", CancelText, None), <<>>))
  /\ UNCHANGED <<sessions, pending_approvals>>

\* approval_id is not in pending_approvals: the 404, raised before the try
RejectUnknown(request) ==
  /\ log' = Append(log, Handled(request, NoInference,
                              HTTPException(404, NotFoundText), <<>>))
  /\ UNCHANGED <<sessions, pending_approvals>>

\* approval_id is in pending_approvals: try, except and finally
Resolve(request, provider) ==
  LET approval_id == request.approval_id
      approval_data == pending_approvals[approval_id]
      session_id == approval_data.session_id
      e == Execute(request.approved, approval_data, provider)
      message == IF e.raised THEN "Error executing action: " \o e.exc ELSE e.message
  IN /\ sessions' =
          IF session_id \in DOMAIN sessions
            THEN AppendTurn(sessions, session_id, Turn("ai", message))
          ELSE sessions
     /\ log' = Append(log, Handled(request, NoInference,
                  MessageResponse("ai_response", message, session_id), e.calls))
     /\ pending_approvals' = CleanUp(pending_approvals, approval_id)

\* the /approve handler
approve_action(request, provider) ==
  IF request.approval_id \notin DOMAIN pending_approvals
    THEN RejectUnknown(request)
  ELSE Resolve(request, provider)

Approve ==
  \E request \in BagToSet(inflight) :
    /\ request.op = "approve"
    /\ inflight' = inflight (-) SetToBag({request})
    /\ \E provider \in ProviderOutcomes : approve_action(request, provider)
    /\ UNCHANGED uuid_count

Next == PostChat \/ PostApprove \/ Chat \/ Approve

Spec == Init /\ [][Next]_vars

(* ---------------- reading the log ---------------- *)
Entries == 1..Len(log)
IsChat(e) == e.request.op = "chat"
IsDecision(e) == e.request.op = "approve"
NotFound(e) == e.reply.type = "HTTPException" /\ e.reply.status_code = 404
Succeeded(e) == e.reply.type = "ai_response"
Filed(e) == e.reply.type = "approval_request"
Executes(e, tool_name) == \E j \in 1..Len(e.calls) : e.calls[j].tool_name = tool_name
\* the decisions handled so far for token t
DecisionsFor(t) ==
  {j \in Entries : IsDecision(log[j]) /\ log[j].request.approval_id = t}
\* this step handles a request; New is its log entry
Handles == Len(log') = Len(log) + 1
New == log'[Len(log')]
\* pending without the entry of token t
Without(pending, t) == [x \in DOMAIN pending \ {t} |-> pending[x]]
AgentTurns(s) == Cardinality({k \in 1..Len(sessions[s]) : sessions[s][k].type = "ai"})

(* ---------------- C1 ---------------- *)
\* C1: a step that invokes the tool 'search' is the handling of a decision
\* with approved = true whose token is in pending_approvals before the step;
\* no /chat step invokes 'search', whatever the agent proposes.
C1_SearchOnlyOnApproval ==
  [][(Handles /\ Executes(New, "search")) =>
       /\ IsDecision(New)
       /\ New.request.approved
       /\ New.request.approval_id \in DOMAIN pending_approvals]_vars

\* a search proposed in /chat was filed, and then run by an approved decision
\* that replied with its results
C1_Witness ==
  \E i, j \in Entries :
    /\ i < j
    /\ IsChat(log[i]) /\ Filed(log[i])
    /\ IsDecision(log[j]) /\ Executes(log[j], "search")
    /\ log[j].request.approval_id = log[i].reply.approval_request.approval_id
    /\ SubSeq(log[j].reply.message, 1, 14) = "Search results"

(* ---------------- C2 ---------------- *)
\* C2: the token of an approval_request reply is the key of the entry that
\* utterance filed (same session, tool and utterance); as long as no decision
\* for it was handled the entry is there, and of the decisions handled for it
\* the first succeeded and all later ones got the 404.
C2_TokenSingleUse ==
  \A i \in Entries :
    Filed(log[i]) =>
      LET t == log[i].reply.approval_request.approval_id
          later == {j \in DecisionsFor(t) : j > i}
      IN IF later = {}
           THEN /\ t \in DOMAIN pending_approvals
                /\ pending_approvals[t].session_id = log[i].reply.session_id
                /\ pending_approvals[t].tool_name = log[i].reply.approval_request.tool_name
                /\ pending_approvals[t].original_query = log[i].request.message
         ELSE /\ t \notin DOMAIN pending_approvals
              /\ \A j \in later :
                   IF \A k \in later : j <= k
                     THEN Succeeded(log[j]) /\ log[j].reply.session_id = log[i].reply.session_id
                   ELSE NotFound(log[j])

\* a filed token was decided twice: the first decision succeeded, the second got the 404
C2_Witness ==
  \E i, j, k \in Entries :
    /\ i < j /\ j < k
    /\ Filed(log[i])
    /\ {j, k} \subseteq DecisionsFor(log[i].reply.approval_request.approval_id)
    /\ Succeeded(log[j])
    /\ NotFound(log[k])

(* ---------------- C3 ---------------- *)
\* C3: of all the decisions handled for one token at most one succeeded and
\* at most one tool invocation was made; when a decision that had a rival for
\* the same token in flight succeeded, the entry is gone and every other
\* decision for the token got the 404; and every session holds one agent turn
\* per direct reply and one per successful decision, never more.
C3_RaceHasOneWinner ==
  /\ \A t \in 1..uuid_count :
       LET ds == DecisionsFor(t)
           wins == {j \in ds : Succeeded(log[j])}
       IN /\ Cardinality(wins) <= 1
          /\ \A j \in ds : Len(log[j].calls) <= 1 /\ (log[j].calls # <<>> => j \in wins)
          /\ \A j \in wins :
               log[j].contended =>
                 /\ t \notin DOMAIN pending_approvals
                 /\ \A k \in ds \ {j} : NotFound(log[k])
  /\ \A s \in DOMAIN sessions :
       AgentTurns(s) =
         Cardinality({i \in Entries :
                        Succeeded(log[i]) /\ log[i].reply.session_id = s})

\* two decisions for one token were in flight together: the one handled
\* first ran the action, the other got the 404
C3_Witness ==
  \E j, k \in Entries :
    /\ j < k
    /\ IsDecision(log[j]) /\ IsDecision(log[k])
    /\ log[j].request.approval_id = log[k].request.approval_id
    /\ log[j].contended
    /\ Succeeded(log[j]) /\ log[j].request.approved /\ log[j].calls # <<>>
    /\ NotFound(log[k])

(* ---------------- C4 ---------------- *)
C4_DenialStep ==
  (/\ Handles
   /\ IsDecision(New)
   /\ ~New.request.approved
   /\ New.request.approval_id \in DOMAIN pending_approvals) =>
    LET t == New.request.approval_id
        owner == pending_approvals[t].session_id
    IN /\ New.calls = <<>>
       /\ New.reply = MessageResponse("ai_response", CancelText, owner)
       /\ owner \in DOMAIN sessions
       /\ sessions' = [sessions EXCEPT ![owner] = Append(@, Turn("ai", CancelText))]
       /\ pending_approvals' = Without(pending_approvals, t)

C4_DeniedStaysRetired ==
  \A j, k \in Entries :
    (/\ j < k
     /\ IsDecision(log[j]) /\ Succeeded(log[j]) /\ ~log[j].request.approved
     /\ IsDecision(log[k])
     /\ log[k].request.approval_id = log[j].request.approval_id) => NotFound(log[k])

\* C4: a decision with approved = false on an outstanding token invokes no
\* tool, replies with the cancellation notice, appends that notice as one
\* agent turn to the owning session and to no other, and removes exactly that
\* ledger entry; every later decision on the token gets the 404.
C4_Denial == []C4_DeniedStaysRetired /\ [][C4_DenialStep]_vars

\* a token was denied and then decided again
C4_Witness ==
  \E j, k \in Entries :
    /\ j < k
    /\ IsDecision(log[j]) /\ Succeeded(log[j]) /\ ~log[j].request.approved
    /\ log[j].reply.message = CancelText
    /\ IsDecision(log[k])
    /\ log[k].request.approval_id = log[j].request.approval_id
    /\ NotFound(log[k])

(* ---------------- C5 ---------------- *)
\* C5: a decision whose token is not in pending_approvals gets the 404,
\* invokes no tool and leaves sessions and pending_approvals as they were.
C5_UnknownToken ==
  [][(/\ Handles
      /\ IsDecision(New)
      /\ New.request.approval_id \notin DOMAIN pending_approvals) =>
       /\ NotFound(New)
       /\ New.reply.detail = NotFoundText
       /\ New.calls = <<>>
       /\ sessions' = sessions
       /\ pending_approvals' = pending_approvals]_vars

\* a made-up token was refused while an approval was outstanding
C5_Witness ==
  /\ DOMAIN pending_approvals # {}
  /\ \E j \in Entries :
       /\ IsDecision(log[j])
       /\ log[j].request.approval_id = BogusToken
       /\ NotFound(log[j])

(* ---------------- C6 ---------------- *)
IsPrefix(a, b) == Len(a) <= Len(b) /\ SubSeq(b, 1, Len(a)) = a

\* C6: in every step every existing session stays, and its transcript before
\* the step is a prefix of its transcript after the step (so the transcript
\* of any earlier state is a prefix of that of any later state).
C6_AppendOnly ==
  [][\A s \in DOMAIN sessions :
       s \in DOMAIN sessions' /\ IsPrefix(sessions[s], sessions'[s])]_vars

\* a session whose transcript grew over several requests, beside another session
C6_Witness ==
  \E s, r \in DOMAIN sessions : s # r /\ Len(sessions[s]) >= 3

(* ---------------- C7 ---------------- *)
\* the transcript of s before it exists
TranscriptOf(ss, s) == IF s \in DOMAIN ss THEN ss[s] ELSE <<>>

C7_SuspensionStep ==
  (Handles /\ IsChat(New) /\ Filed(New)) =>
    LET s == New.reply.session_id
    IN /\ DOMAIN sessions' = DOMAIN sessions \cup {s}
       /\ sessions'[s] = Append(TranscriptOf(sessions, s), Turn("user", New.request.message))
       /\ \A r \in DOMAIN sessions \ {s} : sessions'[r] = sessions[r]

C7_ResolutionStep ==
  (Handles /\ IsDecision(New) /\ Succeeded(New)) =>
    LET t == New.request.approval_id
        owner == pending_approvals[t].session_id
    IN /\ owner \in DOMAIN sessions
       /\ New.reply.session_id = owner
       /\ sessions' = [sessions EXCEPT ![owner] = Append(@, Turn("ai", New.reply.message))]
       /\ \E i \in Entries :
            /\ IsChat(log[i]) /\ Filed(log[i])
            /\ log[i].reply.approval_request.approval_id = t
            /\ log[i].reply.session_id = owner

\* the tokens filed for session s that are no longer outstanding
Resolved(s) ==
  {log[i].reply.approval_request.approval_id :
     i \in {i \in Entries : /\ Filed(log[i])
                            /\ log[i].reply.session_id = s
                            /\ log[i].reply.approval_request.approval_id
                                 \notin DOMAIN pending_approvals}}
\* the utterances of session s that were answered at once
DirectReplies(s) ==
  {i \in Entries : IsChat(log[i]) /\ Succeeded(log[i]) /\ log[i].reply.session_id = s}

C7_OneTurnPerResolvedToken ==
  \A s \in DOMAIN sessions :
    AgentTurns(s) = Cardinality(DirectReplies(s)) + Cardinality(Resolved(s))

\* C7: a /chat step that replies with an approval_request appends the user
\* turn to its session and nothing else to any session; a successful decision
\* appends exactly one agent turn, its reply text, to the session the token
\* was filed for; and each session holds exactly one agent turn per direct
\* reply and one per token of it that has been resolved.
C7_TurnOnResolution ==
  /\ []C7_OneTurnPerResolvedToken
  /\ [][C7_SuspensionStep /\ C7_ResolutionStep]_vars

\* an utterance was suspended and its token then resolved: the session holds
\* the user turn and the one agent turn of the decision
C7_Witness ==
  \E i, j \in Entries :
    /\ i < j
    /\ IsChat(log[i]) /\ Filed(log[i])
    /\ IsDecision(log[j]) /\ Succeeded(log[j])
    /\ log[j].request.approval_id = log[i].reply.approval_request.approval_id
    /\ sessions[log[i].reply.session_id] =
         <<Turn("user", log[i].request.message), Turn("ai", log[j].reply.message)>>

(* ---------------- C8 ---------------- *)
\* C8, for the utterances whose inference call returned: every handled /chat
\* request has a normal reply, a direct reply or an approval request, and no
\* /approve request on an outstanding token ends in a hard failure.
C8_NoHardFailure ==
  \A i \in Entries :
    /\ (IsChat(log[i]) /\ ~log[i].agent.raised) => (Succeeded(log[i]) \/ Filed(log[i]))
    /\ IsDecision(log[i]) => (Succeeded(log[i]) \/ NotFound(log[i]))

(* ---------------- C9 ---------------- *)
\* C9: the session_id stored in every entry of pending_approvals is the
\* identifier of an existing session.
C9_OwnerExists ==
  \A t \in DOMAIN pending_approvals :
    pending_approvals[t].session_id \in DOMAIN sessions

\* approvals are outstanding for a session the server named and for one a client named
C9_Witness ==
  \E t, u \in DOMAIN pending_approvals :
    /\ pending_approvals[t].session_id \in ClientSessionIds
    /\ pending_approvals[u].session_id >= 1

(* ---------------- C10 ---------------- *)
\* C10: a /chat step in which the agent proposes an action named neither
\* 'search' nor 'multiply' replies with the fallback text, appends it as the
\* agent turn of the session, invokes no tool and leaves pending_approvals
\* unchanged.
C10_UnknownActionFallback ==
  [][(/\ Handles
      /\ IsChat(New)
      /\ ~New.agent.raised
      /\ New.agent.tool_calls # <<>>
      /\ New.agent.tool_calls[1].name \notin {"search", "multiply"}) =>
       /\ Succeeded(New)
       /\ New.reply.message = FallbackText
       /\ New.calls = <<>>
       /\ pending_approvals' = pending_approvals
       /\ sessions'[New.reply.session_id] =
            TranscriptOf(sessions, New.reply.session_id)
              \o <<Turn("user", New.request.message), Turn("ai", FallbackText)>>]_vars

(* ---------------- C11 ---------------- *)
\* the agent proposed at least one action, and the first is named tool_name
Proposes(e, tool_name) ==
  /\ IsChat(e)
  /\ ~e.agent.raised
  /\ e.agent.tool_calls # <<>>
  /\ e.agent.tool_calls[1].name = tool_name
\* the arguments of the first proposed action, decoded
ProposedArgs(e) == json_loads(e.agent.tool_calls[1].arguments)
\* they are a mapping with the two integer factors
HasFactors(e) ==
  /\ ProposedArgs(e).ok
  /\ ProposedArgs(e).val.t = "dict"
  /\ {"first_number", "second_number"} \subseteq DOMAIN ProposedArgs(e).val.d
  /\ ProposedArgs(e).val.d["first_number"].t = "int"
  /\ ProposedArgs(e).val.d["second_number"].t = "int"

\* C11: a /chat step in which the agent proposes 'multiply' with integer
\* arguments a and b replies at once with the direct reply
\* "The result is: " followed by a*b, appends the user turn and that text as
\* the agent turn to the session, invokes multiply once and files nothing.
C11_MultiplyInOneRequest ==
  [][(Handles /\ Proposes(New, "multiply") /\ HasFactors(New)) =>
       LET a == ProposedArgs(New).val.d["first_number"].n
           b == ProposedArgs(New).val.d["second_number"].n
           text == "The result is: " \o ToString(a * b)
       IN /\ Succeeded(New)
          /\ New.reply.message = text
          /\ Len(New.calls) = 1 /\ New.calls[1].tool_name = "multiply"
          /\ pending_approvals' = pending_approvals
          /\ sessions'[New.reply.session_id] =
               TranscriptOf(sessions, New.reply.session_id)
                 \o <<Turn("user", New.request.message), Turn("ai", text)>>]_vars

\* 7 * -6 and 9 * 8 were both answered in their own request
C11_Witness ==
  /\ \E i \in Entries :
       /\ Proposes(log[i], "multiply")
       /\ log[i].reply.message = "The result is: -42"
  /\ \E i \in Entries :
       /\ Proposes(log[i], "multiply")
       /\ log[i].reply.message = "The result is: 72"
  /\ DOMAIN pending_approvals = {}

(* ---------------- C12 ---------------- *)
\* the /chat entries that filed token t
FilingsOf(t) ==
  {i \in Entries : Filed(log[i]) /\ log[i].reply.approval_request.approval_id = t}

\* C12: a decision with approved = true on an outstanding token makes exactly
\* one tool invocation, with the tool name and the argument mapping the agent
\* gave in the utterance that filed the token, and appends its outcome as one
\* agent turn to the session of that utterance and to no other, whatever was
\* handled in between.
C12_ExecutesWhatWasFiled ==
  [][(/\ Handles
      /\ IsDecision(New)
      /\ New.request.approved
      /\ New.request.approval_id \in DOMAIN pending_approvals) =>
       LET t == New.request.approval_id
       IN /\ Cardinality(FilingsOf(t)) = 1
          /\ \A i \in FilingsOf(t) :
               /\ New.calls = <<Call(log[i].agent.tool_calls[1].name, ProposedArgs(log[i]).val)>>
               /\ New.reply.session_id = log[i].reply.session_id
               /\ sessions' = [sessions EXCEPT ![log[i].reply.session_id] =
                                 Append(@, Turn("ai", New.reply.message))]]_vars

\* a token was filed, another session's utterance was handled, and then the
\* token was approved and its stored search ran
C12_Witness ==
  \E i, k, j \in Entries :
    /\ i < k /\ k < j
    /\ Filed(log[i])
    /\ IsChat(log[k]) /\ Succeeded(log[k])
    /\ log[k].reply.session_id # log[i].reply.session_id
    /\ IsDecision(log[j]) /\ log[j].request.approved
    /\ log[j].request.approval_id = log[i].reply.approval_request.approval_id
    /\ log[j].calls = <<Call("search", PyDict([query |-> PyStr("news")]))>>

(* ---------------- C13 ---------------- *)
ErrorPrefix == "Error executing action: "
\* the reply of the except branch
ReportsError(e) ==
  /\ Succeeded(e)
  /\ Len(e.reply.message) >= Len(ErrorPrefix)
  /\ SubSeq(e.reply.message, 1, Len(ErrorPrefix)) = ErrorPrefix
\* stored arguments the search tool refuses: no mapping with a str query
BadSearchArgs(tool_args) ==
  \/ tool_args.t # "dict"
  \/ "query" \notin DOMAIN tool_args.d
  \/ tool_args.d["query"].t # "str"

C13_FailedStep ==
  (/\ Handles
   /\ IsDecision(New)
   /\ New.request.approved
   /\ New.request.approval_id \in DOMAIN pending_approvals) =>
    LET t == New.request.approval_id
        owner == pending_approvals[t].session_id
    IN /\ Succeeded(New)
       /\ BadSearchArgs(pending_approvals[t].tool_args) =>
            New.reply.message = ErrorPrefix \o ValidationErrorText
       /\ ReportsError(New) =>
            /\ New.reply.session_id = owner
            /\ Len(New.calls) = 1
            /\ sessions' = [sessions EXCEPT ![owner] =
                              Append(@, Turn("ai", New.reply.message))]
            /\ pending_approvals' = Without(pending_approvals, t)

C13_NoRetry ==
  \A j, k \in Entries :
    (/\ j < k
     /\ IsDecision(log[j]) /\ ReportsError(log[j])
     /\ IsDecision(log[k])
     /\ log[k].request.approval_id = log[j].request.approval_id) =>
      NotFound(log[k]) /\ log[k].calls = <<>>

\* C13: an approved decision on an outstanding token always gets a direct
\* reply; when the stored arguments are refused by the tool the text is the
\* error report; whenever the text is the error report, that text is appended
\* as one agent turn to the owning session, one invocation was made and the
\* entry is removed; every later decision on that token gets the 404 and
\* invokes nothing.
C13_FailureRetiresToken == []C13_NoRetry /\ [][C13_FailedStep]_vars

\* the provider failed on an approved search, and the retry got the 404
C13_Witness ==
  \E j, k \in Entries :
    /\ j < k
    /\ IsDecision(log[j]) /\ log[j].request.approved /\ Succeeded(log[j])
    /\ log[j].reply.message = ErrorPrefix \o ProviderErrorText
    /\ IsDecision(log[k]) /\ log[k].request.approved
    /\ log[k].request.approval_id = log[j].request.approval_id
    /\ NotFound(log[k])

(* ---------------- C14 ---------------- *)
\* C14: in every step every entry of pending_approvals stays, with the same
\* content, unless the step handles a decision for that entry's own token:
\* no /chat step, no decision for another token and no refused decision
\* removes or alters it.
C14_EntryStaysUntilDecided ==
  [][\A t \in DOMAIN pending_approvals :
       \/ Handles /\ IsDecision(New) /\ New.request.approval_id = t
       \/ t \in DOMAIN pending_approvals' /\ pending_approvals'[t] = pending_approvals[t]]_vars

\* two approvals of one session were outstanding together, and the one filed
\* later was resolved while the earlier one is still outstanding, unchanged
C14_Witness ==
  \E i, k, j \in Entries :
    /\ i < k /\ k < j
    /\ Filed(log[i]) /\ Filed(log[k])
    /\ log[i].reply.session_id = log[k].reply.session_id
    /\ IsDecision(log[j]) /\ Succeeded(log[j])
    /\ log[j].request.approval_id = log[k].reply.approval_request.approval_id
    /\ log[i].reply.approval_request.approval_id \in DOMAIN pending_approvals
    /\ pending_approvals[log[i].reply.approval_request.approval_id].tool_args
         = ProposedArgs(log[i]).val

(* ---------------- C15 ---------------- *)
\* the sessions whose transcript the step changes
Changed == {r \in DOMAIN sessions : sessions'[r] # sessions[r]}

\* C15: a /chat step changes the transcript of no existing session other
\* than the one named in the request (of none when the request names none);
\* a decision on an outstanding token changes the transcript of the session
\* that owns the token and of no other, and a refused decision changes none.
C15_SessionsIndependent ==
  [][Handles =>
       /\ DOMAIN sessions \subseteq DOMAIN sessions'
       /\ IsChat(New) => Changed \subseteq {New.request.session_id}
       /\ IsDecision(New) =>
            /\ DOMAIN sessions' = DOMAIN sessions
            /\ Changed =
                 IF New.request.approval_id \in DOMAIN pending_approvals
                   THEN {pending_approvals[New.request.approval_id].session_id}
                 ELSE {}]_vars

\* two sessions hold turns; the token of one was decided after the other
\* session's utterance, and the other session holds just its own exchange
C15_Witness ==
  \E i, k, j \in Entries :
    /\ i < k /\ k < j
    /\ Filed(log[i])
    /\ IsChat(log[k]) /\ Succeeded(log[k])
    /\ log[k].reply.session_id # log[i].reply.session_id
    /\ IsDecision(log[j]) /\ Succeeded(log[j])
    /\ log[j].reply.session_id = log[i].reply.session_id
    /\ sessions[log[k].reply.session_id] =
         <<Turn("user", log[k].request.message), Turn("ai", log[k].reply.message)>>
    /\ Len(sessions[log[i].reply.session_id]) = 2

(* ---------------- C16 ---------------- *)
\* the tokens the step files
FiledNow == DOMAIN pending_approvals' \ DOMAIN pending_approvals

\* C16: a /chat step makes at most one tool invocation and files at most one
\* entry, never both; what it invokes or files is the first action the agent
\* proposed, with that action's arguments; when the agent proposes several
\* actions and the first is 'search' the step files it and invokes nothing,
\* and when the first is 'multiply' it invokes it and files nothing.
C16_OnlyFirstProposal ==
  [][(Handles /\ IsChat(New)) =>
       /\ Len(New.calls) <= 1
       /\ Cardinality(FiledNow) <= 1
       /\ ~(New.calls # <<>> /\ FiledNow # {})
       /\ New.calls # <<>> =>
            New.calls = <<Call(New.agent.tool_calls[1].name, ProposedArgs(New).val)>>
       /\ \A t \in FiledNow :
            /\ Filed(New) /\ New.reply.approval_request.approval_id = t
            /\ pending_approvals'[t].tool_name = New.agent.tool_calls[1].name
            /\ pending_approvals'[t].tool_args = ProposedArgs(New).val
       /\ (/\ ~New.agent.raised
           /\ Len(New.agent.tool_calls) >= 2
           /\ ProposedArgs(New).ok
           /\ ProposedArgs(New).val.t = "dict") =>
            /\ Proposes(New, "search") => Cardinality(FiledNow) = 1 /\ New.calls = <<>>
            /\ Proposes(New, "multiply") => Len(New.calls) = 1 /\ FiledNow = {}]_vars

\* the agent proposed search then multiply, and only the search was filed;
\* it proposed multiply then search, and only the product was computed
C16_Witness ==
  /\ \E i \in Entries :
       /\ Proposes(log[i], "search")
       /\ Len(log[i].agent.tool_calls) = 2
       /\ Filed(log[i]) /\ log[i].calls = <<>>
  /\ \E i \in Entries :
       /\ Proposes(log[i], "multiply")
       /\ Len(log[i].agent.tool_calls) = 2
       /\ Succeeded(log[i]) /\ log[i].reply.message = "The result is: 72"
  /\ Cardinality(DOMAIN pending_approvals) = 1

(* ---------------- C17 ---------------- *)
UserTurns(s) == Cardinality({k \in 1..Len(sessions[s]) : sessions[s][k].type = "user"})
Outstanding(s) == {t \in DOMAIN pending_approvals : pending_approvals[t].session_id = s}

\* C17: in every session the number of user turns equals the number of agent
\* turns plus the number of entries of pending_approvals the session owns.
C17_TurnBalance ==
  \A s \in DOMAIN sessions :
    UserTurns(s) = AgentTurns(s) + Cardinality(Outstanding(s))

(* ---------------- C18 ---------------- *)
\* C18: every entry of pending_approvals has tool_name 'search', and every
\* tool invocation made by a handled decision is an invocation of 'search'.
C18_LedgerHoldsSearchOnly ==
  /\ \A t \in DOMAIN pending_approvals : pending_approvals[t].tool_name = "search"
  /\ \A j \in Entries :
       IsDecision(log[j]) =>
         \A c \in 1..Len(log[j].calls) : log[j].calls[c].tool_name = "search"

\* a search is outstanding, while a proposed multiply was run in /chat and an
\* unknown action was answered with the fallback, neither being filed
C18_Witness ==
  /\ Cardinality(DOMAIN pending_approvals) = 1
  /\ \E i \in Entries : Proposes(log[i], "multiply") /\ log[i].calls # <<>>
  /\ \E i \in Entries :
       /\ Proposes(log[i], "delete_files")
       /\ Succeeded(log[i]) /\ log[i].reply.message = FallbackText

====
